---- MODULE Spec2Model ----
(***************************************************************************)
(* PDS Finder (src/main.py): one run of process(file).                     *)
(*                                                                         *)
(* Text (cell values, codes, product names, URLs, paths, file contents)    *)
(* is a sequence of one-character strings, so that str.strip, os.path.join *)
(* and os.path.basename are computed character by character.  Column       *)
(* labels, dict keys and status messages are only ever compared whole and  *)
(* are TLA+ strings.  A Python value that may be None is a sequence of     *)
(* length 0 (None) or 1.                                                   *)
(***************************************************************************)
EXTENDS Integers, Sequences, FiniteSets, TLC

\* ------------------------------------------------------------------ bounds

\* Longest first column of an upload whose cells are drawn freely.
MaxCodes == 3

\* Longest upload that repeats one matched code (fills the worker pool).
MaxRepeat == 6

\* ------------------------------------------------------------------ text

None == <<>>

Some(x) == <<x>>

\* pandas' missing value: a cell that is no text at all.
NaN == <<"<NaN>">>

isna(v) == v = NaN

\* str(v) / astype(str): text is itself, a missing value reads "nan".
Str(v) == IF isna(v) THEN <<"n", "a", "n">> ELSE v

RECURSIVE LStrip(_)
LStrip(s) == IF s # <<>> /\ Head(s) = " " THEN LStrip(Tail(s)) ELSE s

RECURSIVE RStrip(_)
RStrip(s) == IF s # <<>> /\ s[Len(s)] = " " THEN RStrip(SubSeq(s, 1, Len(s) - 1)) ELSE s

\* str.strip()
Strip(s) == RStrip(LStrip(s))

\* Index of the last "/" of a path, 0 when it has none.
LastSep(p) == IF \E i \in 1..Len(p) : p[i] = "/"
              THEN CHOOSE i \in 1..Len(p) : p[i] = "/" /\ \A j \in (i + 1)..Len(p) : p[j] # "/"
              ELSE 0

\* os.path.basename
Basename(p) == SubSeq(p, LastSep(p) + 1, Len(p))

\* os.path.dirname (no path here is rooted at "/")
Dirname(p) == SubSeq(p, 1, LastSep(p) - 1)

\* os.path.join(folder, name): an absolute name replaces the folder.
PathJoin(folder, name) == IF name # <<>> /\ Head(name) = "/" THEN name ELSE folder \o <<"/">> \o name

PDF_FOLDER == <<"p", "d", "f", "s">>

Min(a, b) == IF a < b THEN a ELSE b

\* ------------------------------------------------------------------ inputs

A1 == <<"A", "1">>

PadA1 == <<" ", "A", "1", " ">>

B2 == <<"B", "2">>

ProdA == <<"P", "a">>

ProdB == <<"P", "b">>

ProdSlash == <<"P", "/", "Q">>

D1 == <<"d", "1">>

D2 == <<"d", "2">>

UrlA == <<"u", "a", "a">>

UrlB == <<"u", "b">>

Extra == <<"x">>

StdColumns == <<"APIR", "Name", "Date", "URL">>

\* What pd.read_excel can return for an upload: a sheet with no column at all,
\* or a first column of cells.
UserCells == {A1, PadA1, B2}

FreeColumns == UNION {[1..n -> UserCells] : n \in 0..MaxCodes}

\* Uploads that repeat one code, for the download stage on its own.
RepeatFrames == {[columns |-> <<"Code">>, rows |-> [i \in 1..n |-> <<A1>>]] : n \in 1..MaxRepeat}

UserFrames == {[columns |-> <<>>, rows |-> <<>>]}
              \cup {[columns |-> <<"Code">>, rows |-> [i \in 1..Len(c) |-> <<c[i]>>]] :
                      c \in FreeColumns}

\* What pd.read_csv can return for the published sheet.
RefStandard == [columns |-> StdColumns,
                rows |-> << <<A1, ProdA, D1, UrlA>> >>]

\* Two rows with the same code; the first one's code cell is padded.
RefDuplicate == [columns |-> StdColumns,
                 rows |-> << <<PadA1, ProdA, D1, UrlA>>, <<A1, ProdB, D2, UrlB>> >>]

\* Two codes whose products have the same name.
RefSameName == [columns |-> StdColumns,
                rows |-> << <<A1, ProdA, D1, UrlA>>, <<B2, ProdA, D2, UrlB>> >>]

\* More than four columns, a missing URL, and a URL of blanks only.
RefWide == [columns |-> StdColumns \o <<"Notes">>,
            rows |-> << <<A1, ProdA, D1, NaN, Extra>>, <<B2, ProdB, D2, <<" ">>, Extra>> >>]

\* Fewer than four columns.
RefNarrow == [columns |-> <<"APIR", "Name", "Date">>,
              rows |-> << <<A1, ProdA, D1>> >>]

\* The first header is one of the filler keys of an unmatched row.
RefFillerHeader == [columns |-> <<"Unnamed_1", "Name", "Date", "URL">>,
                    rows |-> << <<A1, ProdA, D1, UrlA>> >>]

\* A product name that holds a path separator.
RefSlashName == [columns |-> StdColumns,
                 rows |-> << <<A1, ProdSlash, D1, UrlA>>, <<B2, ProdB, D2, UrlB>> >>]

RefTables == {RefStandard, RefDuplicate, RefSameName, RefWide, RefNarrow,
              RefFillerHeader, RefSlashName}

\* ------------------------------------------------------------------ dicts and frames

\* A Python dict, in insertion order: a sequence of <<key, value>>.
DictHas(d, k) == \E i \in 1..Len(d) : d[i][1] = k

DictGet(d, k) == d[CHOOSE i \in 1..Len(d) : d[i][1] = k][2]

\* d[k] = v: an existing key keeps its place and takes the new value.
DictSet(d, k, v) == IF DictHas(d, k)
                    THEN [i \in 1..Len(d) |-> IF d[i][1] = k THEN <<k, v>> ELSE d[i]]
                    ELSE Append(d, <<k, v>>)

\* apir_codes = user_df.iloc[:, 0].astype(str).str.strip().tolist()
ExtractCodes(df) == [i \in 1..Len(df.rows) |-> Strip(Str(df.rows[i][1]))]

\* mask = gs_df.iloc[:, 0].astype(str).str.strip() == code
Mask(gs, code) == {i \in 1..Len(gs.rows) : Strip(Str(gs.rows[i][1])) = code}

\* Faulty variant: the last row that the mask keeps, as .iloc[-1] would take.
LastMatch(gs, code) == CHOOSE i \in Mask(gs, code) : \A j \in Mask(gs, code) : i >= j

\* gs_df.loc[mask].iloc[0]: the first row of the table that the mask keeps.
FirstMatch(gs, code) == CHOOSE i \in Mask(gs, code) : \A j \in Mask(gs, code) : i <= j

\* .iloc[0, :4]: the labels and the values of at most the first four columns.
MatchRow(gs, code) == LET w == Min(4, Len(gs.columns))
                      IN [index |-> SubSeq(gs.columns, 1, w),
                          values |-> SubSeq(gs.rows[FirstMatch(gs, code)], 1, w)]

\* Series.to_dict()
ToDict(series) == [k \in 1..Len(series.index) |-> <<series.index[k], series.values[k]>>]

\* pdf_url of a matched row that has a fourth column.
PdfUrl(series) == IF isna(series.values[4]) THEN <<>> ELSE Strip(Str(series.values[4]))

\* The row of a code that matches nothing: the code under the first header,
\* then the three filler keys set to the empty text.
BlankRow(gs, code) == DictSet(DictSet(DictSet(<< <<gs.columns[1], code>> >>,
                          "Unnamed_1", <<>>), "Unnamed_2", <<>>), "Unnamed_3", <<>>)

\* One pass of the loop body for `code`: the row appended to output_rows, the
\* task appended to download_tasks (if any), or an IndexError at
\* match_row.iloc[3] when the matched row has fewer than four columns.
LoopBody(gs, code) ==
    IF Mask(gs, code) # {}
    THEN LET row == MatchRow(gs, code)
         IN IF Len(row.values) < 4
            THEN [raised |-> TRUE, row |-> ToDict(row), task |-> None]
            ELSE [raised |-> FALSE, row |-> ToDict(row),
                  task |-> IF PdfUrl(row) # <<>>
                           THEN Some([url |-> PdfUrl(row),
                                      product_name |-> Strip(Str(row.values[2]))])
                           ELSE None]
    ELSE [raised |-> FALSE, row |-> BlankRow(gs, code), task |-> None]

\* for code in apir_codes: ... ; stops at the first exception.
RECURSIVE MatchLoop(_, _, _, _)
MatchLoop(gs, codes, i, acc) ==
    IF i > Len(codes) THEN acc
    ELSE LET b == LoopBody(gs, codes[i])
         IN IF b.raised THEN [acc EXCEPT !.raised = TRUE]
            ELSE MatchLoop(gs, codes, i + 1,
                           [raised |-> FALSE,
                            rows |-> Append(acc.rows, b.row),
                            tasks |-> acc.tasks \o b.task])

MatchAll(gs, codes) == MatchLoop(gs, codes, 1, [raised |-> FALSE, rows |-> <<>>, tasks |-> <<>>])

\* Keys of a list of dicts in order of first appearance.
RECURSIVE AddKeys(_, _, _)
AddKeys(keys, d, k) ==
    IF k > Len(d) THEN keys
    ELSE AddKeys(IF \E j \in 1..Len(keys) : keys[j] = d[k][1] THEN keys ELSE Append(keys, d[k][1]),
                 d, k + 1)

RECURSIVE UnionKeys(_, _, _)
UnionKeys(keys, dicts, i) ==
    IF i > Len(dicts) THEN keys ELSE UnionKeys(AddKeys(keys, dicts[i], 1), dicts, i + 1)

\* pd.DataFrame(list of dicts): one column per key, one row per dict, a
\* missing value where a dict lacks the key.
DataFrame(dicts) ==
    LET keys == UnionKeys(<<>>, dicts, 1)
    IN [columns |-> keys,
        rows |-> [i \in 1..Len(dicts) |->
                    [k \in 1..Len(keys) |->
                       IF DictHas(dicts[i], keys[k]) THEN DictGet(dicts[i], keys[k]) ELSE NaN]]]

\* if output_df.shape[1] > 4: output_df = output_df.iloc[:, :4]
FirstFour(df) ==
    IF Len(df.columns) > 4
    THEN [columns |-> SubSeq(df.columns, 1, 4),
          rows |-> [i \in 1..Len(df.rows) |-> SubSeq(df.rows[i], 1, 4)]]
    ELSE df

OutputColumns == <<"APIR Code", "Product Name", "Date", "PDF URL">>

\* output_df.columns = [...] raises ValueError unless the frame has as many
\* columns as there are new labels.
CanRename(df) == Len(df.columns) = Len(OutputColumns)

Rename(df) == [df EXCEPT !.columns = OutputColumns]

\* DataFrame.to_excel: the sheet as written, a missing value as an empty cell.
ToExcel(df) == [columns |-> df.columns,
                rows |-> [i \in 1..Len(df.rows) |->
                            [k \in 1..Len(df.rows[i]) |->
                               IF isna(df.rows[i][k]) THEN <<>> ELSE df.rows[i][k]]]]

\* ------------------------------------------------------------------ downloads

max_workers == 5

\* file_path of a task: os.path.join(PDF_FOLDER, f"{product_name} PDS.pdf")
FilePath(task) == PathJoin(PDF_FOLDER, task.product_name \o <<" ", "P", "D", "S", ".", "p", "d", "f">>)

\* The body of the document served at url.
Content(url) == <<"%">> \o url

\* open(file_path, "wb") succeeds when the file's directory exists; only
\* PDF_FOLDER was created (line 16).
OpenOk(path) == Dirname(path) = PDF_FOLDER

\* f.write(data) on a descriptor opened at offset 0: the data replace the
\* bytes they cover and leave whatever another writer put beyond them.
Overlay(old, data) == data \o SubSeq(old, Len(data) + 1, Len(old))

\* ------------------------------------------------------------------ state

VARIABLES
    pc,               \* the next step of process, "returned" or "raised"
    file,             \* the argument of process: None or the upload
    user_df,          \* None until read, then the uploaded sheet
    apir_codes,
    gs_df,            \* None until read, then the reference table
    output_rows,
    download_tasks,
    output_df,        \* None until built
    disk_excel,       \* output_results.xlsx: None or the sheet written
    disk_pdfs,        \* the files under PDF_FOLDER: a dict path -> content
    disk_zip,         \* pdfs_bundle.zip: None or its entries
    downloaded_files,
    task_state,       \* per download task: where download_pdf is, or how it ended
    log,              \* what download_pdf printed: the urls of failed downloads
    result,           \* None, or what process returned
    exception         \* None, or the exception that escaped process

vars == <<pc, file, user_df, apir_codes, gs_df, output_rows, download_tasks,
          output_df, disk_excel, disk_pdfs, disk_zip, downloaded_files,
          task_state, log, result, exception>>

procVars == <<file, user_df, apir_codes, gs_df, output_rows, download_tasks, output_df>>

poolVars == <<disk_pdfs, downloaded_files, task_state, log>>

output_excel == "output_results.xlsx"

zip_path == "pdfs_bundle.zip"

Return(status, excel, zip) ==
    /\ pc' = "returned"
    /\ result' = Some([status |-> status, excel |-> excel, zip |-> zip])
    /\ UNCHANGED exception

Raise(e) ==
    /\ pc' = "raised"
    /\ exception' = Some(e)
    /\ UNCHANGED result

Goto(step) ==
    /\ pc' = step
    /\ UNCHANGED <<result, exception>>

Init ==
    /\ pc = "check_file"
    /\ file \in {None, Some("upload.xlsx")}
    /\ user_df = None
    /\ apir_codes = <<>>
    /\ gs_df = None
    /\ output_rows = <<>>
    /\ download_tasks = <<>>
    /\ output_df = None
    /\ disk_excel = None
    /\ disk_pdfs = <<>>
    /\ disk_zip = None
    /\ downloaded_files = <<>>
    /\ task_state = <<>>
    /\ log = <<>>
    /\ result = None
    /\ exception = None

\* ------------------------------------------------------------------ process

\* Faulty variant: the test for a missing upload is left out.
CheckFileUnguarded ==
    /\ pc = "check_file"
    /\ Goto("read_excel")
    /\ UNCHANGED <<procVars, poolVars, disk_excel, disk_zip>>

\* if file is None: return "No file uploaded.", None, None
CheckFile ==
    /\ pc = "check_file"
    /\ IF file = None
       THEN Return("No file uploaded.", None, None)
       ELSE Goto("read_excel")
    /\ UNCHANGED <<procVars, poolVars, disk_excel, disk_zip>>

\* pd.read_excel raises: the message is returned.
ReadExcelFails ==
    /\ pc = "read_excel"
    /\ Return("Error reading the uploaded Excel", None, None)
    /\ UNCHANGED <<procVars, poolVars, disk_excel, disk_zip>>

ReadExcel ==
    /\ pc = "read_excel"
    /\ \E df \in UserFrames : user_df' = Some(df)
    /\ Goto("extract")
    /\ UNCHANGED <<file, apir_codes, gs_df, output_rows, download_tasks, output_df,
                   poolVars, disk_excel, disk_zip>>

\* user_df.iloc[:, 0]: IndexError on a sheet without columns, outside any try.
Extract ==
    /\ pc = "extract"
    /\ IF user_df[1].columns = <<>>
       THEN Raise("IndexError at line 33") /\ UNCHANGED apir_codes
       ELSE Goto("read_csv") /\ apir_codes' = ExtractCodes(user_df[1])
    /\ UNCHANGED <<file, user_df, gs_df, output_rows, download_tasks, output_df,
                   poolVars, disk_excel, disk_zip>>

\* Faulty variant: pd.read_csv outside any try, its exception escapes.
ReadCsvUncaught ==
    /\ pc = "read_csv"
    /\ Raise("Exception at line 37")
    /\ UNCHANGED <<procVars, poolVars, disk_excel, disk_zip>>

\* pd.read_csv raises: the message is returned.
ReadCsvFails ==
    /\ pc = "read_csv"
    /\ Return("Error reading the public Google Sheet", None, None)
    /\ UNCHANGED <<procVars, poolVars, disk_excel, disk_zip>>

ReadCsv ==
    /\ pc = "read_csv"
    /\ \E gs \in RefTables : gs_df' = Some(gs)
    /\ Goto("match")
    /\ UNCHANGED <<file, user_df, apir_codes, output_rows, download_tasks, output_df,
                   poolVars, disk_excel, disk_zip>>

\* The matching loop, lines 46 to 73.
Match ==
    /\ pc = "match"
    /\ LET m == MatchAll(gs_df[1], apir_codes)
       IN /\ output_rows' = m.rows
          /\ download_tasks' = m.tasks
          /\ IF m.raised THEN Raise("IndexError at line 61") ELSE Goto("frame")
    /\ UNCHANGED <<file, user_df, apir_codes, gs_df, output_df,
                   poolVars, disk_excel, disk_zip>>

\* Lines 77 to 82: build the frame, keep four columns, relabel them.
Frame ==
    /\ pc = "frame"
    /\ LET df == FirstFour(DataFrame(output_rows))
       IN IF CanRename(df)
          THEN output_df' = Some(Rename(df)) /\ Goto("to_excel")
          ELSE output_df' = Some(df) /\ Raise("ValueError at line 82")
    /\ UNCHANGED <<file, user_df, apir_codes, gs_df, output_rows, download_tasks,
                   poolVars, disk_excel, disk_zip>>

\* output_df.to_excel raises: the message is returned.
ToExcelFails ==
    /\ pc = "to_excel"
    /\ Return("Error saving the output Excel", None, None)
    /\ UNCHANGED <<procVars, poolVars, disk_excel, disk_zip>>

SaveExcel ==
    /\ pc = "to_excel"
    /\ disk_excel' = Some(ToExcel(output_df[1]))
    /\ Goto("submit")
    /\ UNCHANGED <<procVars, poolVars, disk_zip>>

\* ------------------------------------------------------------------ the pool

Running == {"fetching", "opened", "written"}

Finished == {"stored", "not_opened", "refused", "failed"}

\* The tasks whose requests.get returned status 200.
Got200 == {"opened", "written", "stored", "not_opened"}

InFlight == {i \in 1..Len(task_state) : task_state[i] \in Running}

\* executor.map(download_pdf, download_tasks): every task is queued, in order.
Submit ==
    /\ pc = "submit"
    /\ task_state' = [i \in 1..Len(download_tasks) |-> "queued"]
    /\ Goto("join")
    /\ UNCHANGED <<procVars, disk_excel, disk_pdfs, disk_zip, downloaded_files, log>>

\* A worker takes the oldest queued task; at most max_workers tasks run.
StartTask(i) ==
    /\ task_state[i] = "queued"
    /\ \A j \in 1..(i - 1) : task_state[j] # "queued"
    /\ Cardinality(InFlight) < max_workers
    /\ task_state' = [task_state EXCEPT ![i] = "fetching"]
    /\ UNCHANGED <<pc, result, exception, procVars, disk_excel, disk_pdfs, disk_zip,
                   downloaded_files, log>>

\* requests.get returns 200 and open(file_path, "wb") creates or empties the file.
Respond200(i) ==
    /\ task_state[i] = "fetching"
    /\ LET path == FilePath(download_tasks[i])
       IN IF OpenOk(path)
          THEN /\ disk_pdfs' = DictSet(disk_pdfs, path, <<>>)
               /\ task_state' = [task_state EXCEPT ![i] = "opened"]
               /\ UNCHANGED log
          ELSE /\ log' = Append(log, download_tasks[i].url)
               /\ task_state' = [task_state EXCEPT ![i] = "not_opened"]
               /\ UNCHANGED disk_pdfs
    /\ UNCHANGED <<pc, result, exception, procVars, disk_excel, disk_zip, downloaded_files>>

\* requests.get returns another status: nothing is written, nothing printed.
RespondOther(i) ==
    /\ task_state[i] = "fetching"
    /\ task_state' = [task_state EXCEPT ![i] = "refused"]
    /\ UNCHANGED <<pc, result, exception, procVars, disk_excel, disk_pdfs, disk_zip,
                   downloaded_files, log>>

\* requests.get raises: the error is printed and the task ends.
RespondError(i) ==
    /\ task_state[i] = "fetching"
    /\ log' = Append(log, download_tasks[i].url)
    /\ task_state' = [task_state EXCEPT ![i] = "failed"]
    /\ UNCHANGED <<pc, result, exception, procVars, disk_excel, disk_pdfs, disk_zip,
                   downloaded_files>>

\* f.write(response.content) and the end of the with block.
WriteFile(i) ==
    /\ task_state[i] = "opened"
    /\ LET path == FilePath(download_tasks[i])
       IN disk_pdfs' = DictSet(disk_pdfs, path,
                               Overlay(DictGet(disk_pdfs, path), Content(download_tasks[i].url)))
    /\ task_state' = [task_state EXCEPT ![i] = "written"]
    /\ UNCHANGED <<pc, result, exception, procVars, disk_excel, disk_zip, downloaded_files, log>>

\* downloaded_files.append(file_path)
AppendFile(i) ==
    /\ task_state[i] = "written"
    /\ downloaded_files' = Append(downloaded_files, FilePath(download_tasks[i]))
    /\ task_state' = [task_state EXCEPT ![i] = "stored"]
    /\ UNCHANGED <<pc, result, exception, procVars, disk_excel, disk_pdfs, disk_zip, log>>

\* A step of some run of download_pdf on a pool thread.
Workers == \/ \E i \in 1..Len(task_state) : StartTask(i)
           \/ \E i \in 1..Len(task_state) : Respond200(i)
           \/ \E i \in 1..Len(task_state) : RespondOther(i)
           \/ \E i \in 1..Len(task_state) : RespondError(i)
           \/ \E i \in 1..Len(task_state) : WriteFile(i)
           \/ \E i \in 1..Len(task_state) : AppendFile(i)

\* Faulty variant: the pool is left without waiting, as shutdown(wait=False) would.
PoolNotAwaited == TRUE

\* The end of the with block: ThreadPoolExecutor.__exit__ waits for every task.
PoolDrained == \A i \in 1..Len(task_state) : task_state[i] \in Finished

Join ==
    /\ pc = "join"
    /\ PoolDrained
    /\ Goto("zip")
    /\ UNCHANGED <<procVars, poolVars, disk_excel, disk_zip>>

\* zipf.write(pdf_file, arcname=os.path.basename(pdf_file)) for each listed file.
ZipEntries(files, disk) ==
    [k \in 1..Len(files) |-> [arcname |-> Basename(files[k]), data |-> DictGet(disk, files[k])]]

Zip ==
    /\ pc = "zip"
    /\ disk_zip' = Some(ZipEntries(downloaded_files, disk_pdfs))
    /\ Return("Processing complete!", Some(output_excel), Some(zip_path))
    /\ UNCHANGED <<procVars, poolVars, disk_excel>>

\* zipfile.ZipFile raises: the message is returned with the result file only.
ZipFails ==
    /\ pc = "zip"
    /\ Return("Error creating the ZIP archive", Some(output_excel), None)
    /\ UNCHANGED <<procVars, poolVars, disk_excel, disk_zip>>

Process == \/ CheckFile \/ ReadExcelFails \/ ReadExcel \/ Extract
           \/ ReadCsvFails \/ ReadCsv \/ Match \/ Frame
           \/ ToExcelFails \/ SaveExcel \/ Submit \/ Join \/ Zip \/ ZipFails

Next == Process \/ Workers

Spec == Init /\ [][Next]_vars

\* ------------------------------------------------------------------ the download stage on its own

\* The states in which process reaches line 110, for uploads long enough to
\* fill the pool: lines 20 to 89 have run without an error.
PoolFrames == RepeatFrames

PoolTables == {RefStandard, RefSlashName}

InitPool ==
    \E df \in PoolFrames, gs \in PoolTables :
        LET codes == ExtractCodes(df)
            m == MatchAll(gs, codes)
            f == FirstFour(DataFrame(m.rows))
        IN /\ ~m.raised
           /\ CanRename(f)
           /\ pc = "submit"
           /\ file = Some("upload.xlsx")
           /\ user_df = Some(df)
           /\ apir_codes = codes
           /\ gs_df = Some(gs)
           /\ output_rows = m.rows
           /\ download_tasks = m.tasks
           /\ output_df = Some(Rename(f))
           /\ disk_excel = Some(ToExcel(Rename(f)))
           /\ disk_pdfs = <<>>
           /\ disk_zip = None
           /\ downloaded_files = <<>>
           /\ task_state = <<>>
           /\ log = <<>>
           /\ result = None
           /\ exception = None

PoolProcess == Submit \/ Join \/ Zip \/ ZipFails

PoolNext == PoolProcess \/ Workers

\* Some thread that can take a step does take one: process and the workers
\* are never all suspended for ever, and each requests.get is taken to end,
\* with a response or with an exception.
PoolSpec == InitPool /\ [][PoolNext]_vars /\ WF_vars(PoolNext)

\* ------------------------------------------------------------------ properties

Codes == 1..Len(apir_codes)

Tasks == 1..Len(download_tasks)

\* The i-th input code equals the stripped text of some reference code cell.
Matched(i) == \E j \in 1..Len(gs_df[1].rows) : Strip(Str(gs_df[1].rows[j][1])) = apir_codes[i]

\* The output frame has been built and relabelled (line 82 has run).
FrameBuilt == output_df # None /\ exception = None

Blank(v) == v = <<>> \/ isna(v)

Status(s) == pc = "returned" /\ result[1].status = s

\* C1: once the output frame is built from a reference table of at least four
\* columns, the row of every matched input code holds the first four values
\* of a reference row with that code, wherever the code sits in the input.
C1_MatchedRowCopied ==
    (FrameBuilt /\ Len(gs_df[1].columns) >= 4) =>
        \A i \in Codes :
            Matched(i) =>
                \E j \in 1..Len(gs_df[1].rows) :
                    /\ Strip(Str(gs_df[1].rows[j][1])) = apir_codes[i]
                    /\ output_df[1].rows[i] = SubSeq(gs_df[1].rows[j], 1, 4)

\* C2: once the output frame is built, the row of every unmatched input code
\* holds the code in column one and blanks in columns two, three and four,
\* wherever the code sits in the input.
C2_UnmatchedRowBlank ==
    FrameBuilt =>
        \A i \in Codes :
            ~Matched(i) =>
                /\ Len(output_df[1].rows[i]) = 4
                /\ output_df[1].rows[i][1] = apir_codes[i]
                /\ \A k \in 2..4 : Blank(output_df[1].rows[i][k])

\* C3: once process is past the reference read and the building of the
\* output frame, it has an output table of exactly the four fixed columns,
\* for every reference width and every input list: it did not raise instead.
C3_FourColumns ==
    (gs_df # None /\ pc \notin {"match", "frame"}) =>
        /\ exception = None
        /\ output_df # None
        /\ output_df[1].columns = OutputColumns
        /\ \A i \in 1..Len(output_df[1].rows) : Len(output_df[1].rows[i]) = 4

\* The archive entry a task's document would make.
EntryOf(task) == [arcname |-> Basename(FilePath(task)), data |-> Content(task.url)]

\* C4: when process returns "Processing complete!", the entries of the
\* archive are exactly the documents of the tasks whose fetch returned 200.
C4_ArchiveExact ==
    Status("Processing complete!") =>
        /\ disk_zip # None
        /\ {disk_zip[1][k] : k \in 1..Len(disk_zip[1])}
             = {EntryOf(download_tasks[i]) : i \in {t \in Tasks : task_state[t] \in Got200}}

\* C5: the output frame has one row per input code, in input order: as many
\* rows as codes, and the first column of the i-th row reads, as stripped
\* text, the i-th input code.
C5_RowPerCode ==
    FrameBuilt =>
        /\ Len(output_df[1].rows) = Len(apir_codes)
        /\ \A i \in Codes : Strip(Str(output_df[1].rows[i][1])) = apir_codes[i]

\* C6 as stated: no step but the reading of the upload ends the run early, so
\* process returns only for a missing or unreadable upload or from its last
\* step, the archive write.
C6_OnlyInputAborts ==
    pc = "returned" =>
        result[1].status \in {"No file uploaded.", "Error reading the uploaded Excel",
                              "Processing complete!", "Error creating the ZIP archive"}

\* C6 as amended: no I/O failure escapes as an exception (the only exceptions
\* are those of the three computing steps); a failed upload read, reference
\* fetch or output write ends the run with a message, no artifact and none
\* of the later steps done; a download that raises is printed, one that is
\* refused is skipped, and the other tasks and the archive step still run; a
\* failed archive write returns its message with the output file and no
\* archive.
C6_FailuresReported ==
    /\ exception # None =>
           exception[1] \in {"IndexError at line 33", "IndexError at line 61",
                             "ValueError at line 82"}
    /\ Status("Error reading the uploaded Excel") =>
           /\ result[1].excel = None /\ result[1].zip = None
           /\ user_df = None /\ gs_df = None /\ disk_excel = None
           /\ task_state = <<>> /\ disk_zip = None
    /\ Status("Error reading the public Google Sheet") =>
           /\ result[1].excel = None /\ result[1].zip = None
           /\ gs_df = None /\ output_df = None /\ disk_excel = None
           /\ task_state = <<>> /\ disk_zip = None
    /\ Status("Error saving the output Excel") =>
           /\ result[1].excel = None /\ result[1].zip = None
           /\ output_df # None /\ disk_excel = None
           /\ task_state = <<>> /\ disk_zip = None
    /\ (Status("Processing complete!") \/ Status("Error creating the ZIP archive")) =>
           /\ Len(task_state) = Len(download_tasks)
           /\ \A i \in Tasks : task_state[i] \in Finished
           /\ Len(log) = Cardinality({i \in Tasks : task_state[i] \in {"failed", "not_opened"}})
           /\ result[1].excel = Some(output_excel)
           /\ disk_excel # None
    /\ Status("Error creating the ZIP archive") => result[1].zip = None /\ disk_zip = None
    /\ Status("Processing complete!") => result[1].zip = Some(zip_path) /\ disk_zip # None

\* A run in which one download failed, another was stored, and the archive
\* was still written.
C6_Witness ==
    /\ Status("Processing complete!")
    /\ \E i \in Tasks : task_state[i] = "failed"
    /\ \E i \in Tasks : task_state[i] = "stored"

\* From the archive step on, a step changes neither a file nor the list.
ArchivingFreezesPool ==
    pc \in {"zip", "returned"} => (disk_pdfs' = disk_pdfs /\ downloaded_files' = downloaded_files)

\* The steps a task still has to take, at most.
StepsLeft(state) ==
    CASE state = "queued" -> 4
      [] state = "fetching" -> 3
      [] state = "opened" -> 2
      [] state = "written" -> 1
      [] OTHER -> 0

RECURSIVE TaskStepsLeft(_)
TaskStepsLeft(i) ==
    IF i = 0 THEN 0
    ELSE TaskStepsLeft(i - 1) + (IF i <= Len(task_state) THEN StepsLeft(task_state[i]) ELSE 4)

\* The steps the run still has to take, at most: those of process from the
\* submission on, and those of every task.
RunStepsLeft ==
    TaskStepsLeft(Len(download_tasks))
    + (CASE pc = "submit" -> 3 [] pc = "join" -> 2 [] pc = "zip" -> 1 [] OTHER -> 0)

EveryStepAdvances == RunStepsLeft' < RunStepsLeft

\* C7: archiving starts only after every submitted task has ended: while
\* process is at or past the archive step every task is finished and no
\* worker changes a file or the downloaded-files list; at most max_workers
\* tasks run at a time; and the archive step is always reached: before it
\* some thread can always take a step, and every step brings the run nearer
\* its end, so that a run in which threads keep running reaches it.
C7_JoinBeforeArchive ==
    /\ [](pc \in {"zip", "returned"} =>
            /\ Len(task_state) = Len(download_tasks)
            /\ \A i \in Tasks : task_state[i] \in Finished)
    /\ [][ArchivingFreezesPool]_vars
    /\ [](Cardinality(InFlight) <= max_workers)
    /\ [](pc \in {"submit", "join"} => ENABLED PoolNext)
    /\ [][EveryStepAdvances]_vars

\* C7, the last part said directly: under the fairness of PoolSpec the run
\* goes from the submission to the archive step.
C7_ArchiveReached == pc = "submit" ~> pc = "zip"

\* The archive step is reached after more tasks than the pool has workers,
\* some stored and some failed.
C7_Witness ==
    /\ pc = "zip"
    /\ Len(task_state) > max_workers
    /\ Len(downloaded_files) >= 2
    /\ \E i \in Tasks : task_state[i] = "failed"

\* The index of the first reference row whose code cell reads `code`.
FirstRowWith(code) ==
    CHOOSE j \in 1..Len(gs_df[1].rows) :
        /\ Strip(Str(gs_df[1].rows[j][1])) = code
        /\ \A k \in 1..(j - 1) : Strip(Str(gs_df[1].rows[k][1])) # code

\* C8: after the matching loop, the row recorded for a matched input code is
\* that of the first reference row with the code, and every download task is
\* the one of the first row of some input code; later rows with the code
\* leave no trace.
C8_FirstMatchWins ==
    (pc \in {"frame", "to_excel", "submit", "join", "zip"} \/ (pc = "returned" /\ output_df # None)) =>
        /\ Len(output_rows) = Len(apir_codes)
        /\ \A i \in Codes :
              Matched(i) =>
                  LET r == gs_df[1].rows[FirstRowWith(apir_codes[i])]
                  IN output_rows[i] = [k \in 1..4 |-> <<gs_df[1].columns[k], r[k]>>]
        /\ \A t \in Tasks :
              \E i \in Codes :
                  /\ Matched(i)
                  /\ LET r == gs_df[1].rows[FirstRowWith(apir_codes[i])]
                     IN /\ download_tasks[t].url = Strip(Str(r[4]))
                        /\ download_tasks[t].product_name = Strip(Str(r[2]))

\* A finished run on a table where two rows carry a code of the input.
C8_Witness ==
    /\ Status("Processing complete!")
    /\ \E i \in Codes :
          Cardinality({j \in 1..Len(gs_df[1].rows) :
                         Strip(Str(gs_df[1].rows[j][1])) = apir_codes[i]}) >= 2
    /\ download_tasks # <<>>

\* C9: without an upload process returns "No file uploaded." at once, and
\* whenever it returns that or the upload's read error it returns no
\* artifact and has done none of the later steps.
C9_NoInputNoWork ==
    /\ (file = None /\ pc # "check_file") => Status("No file uploaded.")
    /\ (Status("No file uploaded.") \/ Status("Error reading the uploaded Excel")) =>
           /\ result[1].excel = None /\ result[1].zip = None
           /\ user_df = None /\ gs_df = None /\ output_df = None
           /\ disk_excel = None /\ disk_pdfs = <<>> /\ disk_zip = None
           /\ task_state = <<>> /\ downloaded_files = <<>>

\* A run that ended on an upload that could not be read.
C9_Witness == Status("Error reading the uploaded Excel")

\* C10: no two download tasks of a run have the same destination path, so no
\* two workers hold the same file open and no path is listed twice.
C10_DistinctPaths ==
    /\ \A i, j \in 1..Len(task_state) :
          i # j => FilePath(download_tasks[i]) # FilePath(download_tasks[j])
    /\ \A i, j \in 1..Len(downloaded_files) :
          i # j => downloaded_files[i] # downloaded_files[j]

====
